---- MODULE Spec2Model ----
(***************************************************************************)
(* headless/manager.py: ExtendedHeadless (one configured browser session)  *)
(* and MultiDriverManager (a name-keyed registry of ExtendedHeadless).     *)
(*                                                                         *)
(* The external collaborators (driver installer, browser launch, stealth   *)
(* library, CDP commands, filesystem) are modelled by their outcomes: each *)
(* call either succeeds or raises, chosen nondeterministically per call.   *)
(*                                                                         *)
(* Python None is modelled by the falsy value of the attribute's type:     *)
(* 0 for a handle or an instance reference, "" for a string, <<>> for a    *)
(* path.  The code tests these attributes by truthiness only, so None and  *)
(* the empty value take the same branches.                                 *)
(***************************************************************************)
EXTENDS Integers, Sequences, FiniteSets, TLC

\* ---- bounds -------------------------------------------------------------
MaxInst == 2        \* ExtendedHeadless objects constructed in one run
MaxLaunch == 2      \* browser sessions launched by one object

\* ---- input domains ------------------------------------------------------
Names == {"a", "b", "c"}
Proxies == {"", "host:3128"}
\* a path is the sequence of its components; an absolute path starts with "/"
DownloadDirs == {<<>>, <<"dl">>, <<"/", "tmp", "dl">>}
DriverPaths == {"", "/opt/chromedriver"}
OutPaths == {"out"}
Cwd == <<"/", "work">>
InstalledPath == "/wdm/chromedriver"
DefaultChromeBinary == "/usr/bin/chromium-browser"
Outcomes == {"ok", "raise"}
LaunchOutcomes == {"ok", "none", "raise"}

VARIABLES
    instances,   \* MultiDriverManager.instances: a dict, as its items in insertion order
    objs,        \* the ExtendedHeadless objects constructed so far, by identity 1..Len(objs)
    sessions,    \* per object, the browser sessions it launched: [released, patched]
    dirs,        \* the directories that exist on the filesystem
    files,       \* the output files written so far
    builtOpts,   \* per object, <<>> or <<the Options its last _build_options returned>>
    lastOp       \* what the last operation was, what it returned and which calls it made

vars == <<instances, objs, sessions, dirs, files, builtOpts, lastOp>>

\* ---- dict (insertion-ordered mapping name -> object) --------------------
Keys(d) == [i \in 1..Len(d) |-> d[i].name]

HasKey(d, k) == \E i \in 1..Len(d) : d[i].name = k

\* d.get(k): the value, or None
DictGet(d, k) ==
    IF HasKey(d, k) THEN d[CHOOSE i \in 1..Len(d) : d[i].name = k].inst ELSE 0

\* d[k] = v that never looks for the key
DictSet_Append(d, k, v) == Append(d, [name |-> k, inst |-> v])

\* d[k] = v: replaces the value of an existing key in place, else appends
DictSet(d, k, v) ==
    IF HasKey(d, k)
    THEN [i \in 1..Len(d) |-> IF d[i].name = k THEN [name |-> k, inst |-> v] ELSE d[i]]
    ELSE Append(d, [name |-> k, inst |-> v])

\* d.get(k) in place of d.pop(k, None): the item stays
DictRemove_Keep(d, k) == d

\* d.pop(k, None): removes every item under k (there is at most one)
DictRemove(d, k) == SelectSeq(d, LAMBDA e : e.name # k)

\* ---- ExtendedHeadless ---------------------------------------------------
\* lastOp: op, name, inst are the call; ret (a handle or an object, 0 for
\* None) and retBool what it returned; raised whether an exception reached the
\* caller and cause the call that raised it; calls the stealth calls made, in
\* order, with their outcomes; quits the objects whose quit() was invoked, in
\* order; replaced the object create found under the name.
NoOp ==
    [op |-> "init", name |-> "", inst |-> 0, ret |-> 0, retBool |-> FALSE,
     raised |-> FALSE, cause |-> "", calls |-> <<>>, quits |-> <<>>,
     replaced |-> 0]

\* ExtendedHeadless.__init__
NewHeadless(proxy, stealth, download_dir, auto_install, chrome_driver_path, chrome_binary_path) ==
    [proxy |-> proxy,
     stealth |-> stealth,
     download_dir |-> download_dir,
     auto_install |-> auto_install,
     chrome_driver_path |-> chrome_driver_path,
     chrome_binary_path |-> chrome_binary_path,
     _applied_stealth |-> FALSE,
     _driver |-> 0]

\* os.path.abspath: an absolute path is kept, a relative one is joined to the cwd
abspath(p) == IF Len(p) > 0 /\ p[1] = "/" THEN p ELSE Cwd \o p

\* os.makedirs(p, exist_ok=True): the directory and every missing parent
makedirs(ds, p) == ds \cup {SubSeq(abspath(p), 1, k) : k \in 1..Len(abspath(p))}

\* _build_options putting download_dir as given into the preferences
_build_options_raw(o, ds, mk) ==
    LET opts == [arguments |-> (IF o.proxy # "" THEN << <<"--proxy-server", o.proxy>> >> ELSE <<>>)
                                \o << <<"--headless", "new">>, <<"--no-sandbox">>,
                                      <<"--disable-dev-shm-usage">>, <<"--disable-gpu">> >>,
                 prefs |-> IF o.download_dir # <<>>
                           THEN << [download_default_directory |-> o.download_dir,
                                    download_prompt_for_download |-> FALSE,
                                    download_directory_upgrade |-> TRUE,
                                    plugins_always_open_pdf_externally |-> TRUE] >>
                           ELSE <<>>,
                 excludeSwitches |-> <<"enable-automation">>,
                 useAutomationExtension |-> FALSE,
                 binary_location |-> o.chrome_binary_path]
    IN  IF o.download_dir # <<>> /\ abspath(o.download_dir) \notin ds /\ mk = "raise"
        THEN [raised |-> TRUE, opts |-> <<>>, dirs |-> ds]
        ELSE [raised |-> FALSE, opts |-> <<opts>>,
              dirs |-> IF o.download_dir # <<>> THEN makedirs(ds, o.download_dir) ELSE ds]

\* ExtendedHeadless._build_options.  mk is the outcome of os.makedirs when it
\* has a directory to create (with exist_ok=True an existing one never raises).
\* Returns the Options in a one-element sequence (<<>> when makedirs raised)
\* and the directories that exist afterwards.
_build_options(o, ds, mk) ==
    LET proxyArgs == IF o.proxy # "" THEN << <<"--proxy-server", o.proxy>> >> ELSE <<>>
        prefs == IF o.download_dir # <<>>
                 THEN << [download_default_directory |-> abspath(o.download_dir),
                          download_prompt_for_download |-> FALSE,
                          download_directory_upgrade |-> TRUE,
                          plugins_always_open_pdf_externally |-> TRUE] >>
                 ELSE <<>>
        opts == [arguments |-> proxyArgs \o << <<"--headless", "new">>, <<"--no-sandbox">>,
                                               <<"--disable-dev-shm-usage">>, <<"--disable-gpu">> >>,
                 prefs |-> prefs,
                 excludeSwitches |-> <<"enable-automation">>,
                 useAutomationExtension |-> FALSE,
                 binary_location |-> o.chrome_binary_path]
    IN  IF o.download_dir # <<>> /\ abspath(o.download_dir) \notin ds /\ mk = "raise"
        THEN [raised |-> TRUE, opts |-> <<>>, dirs |-> ds]
        ELSE [raised |-> FALSE, opts |-> <<opts>>,
              dirs |-> IF o.download_dir # <<>> THEN makedirs(ds, o.download_dir) ELSE ds]

\* ExtendedHeadless._auto_install_driver.  inst1 is the outcome of
\* ChromeDriverManager().install(); a raise is swallowed.
_auto_install_driver(o, inst1) ==
    IF o.chrome_driver_path = "" /\ o.auto_install /\ inst1 = "ok"
    THEN [o EXCEPT !.chrome_driver_path = InstalledPath]
    ELSE o

\* The stealth block assigning the outcome of this launch's patch to the flag
ApplyStealth_Reset(o, lib, cdp) ==
    LET primary == [call |-> "apply_stealth", out |-> lib]
        fallback == [call |-> "execute_cdp_cmd", out |-> cdp]
    IN  IF ~(o.stealth /\ ~o._applied_stealth)
        THEN [applied |-> FALSE, patched |-> FALSE, calls |-> <<>>]
        ELSE IF lib = "ok"
        THEN [applied |-> TRUE, patched |-> TRUE, calls |-> <<primary>>]
        ELSE [applied |-> cdp = "ok", patched |-> cdp = "ok",
              calls |-> <<primary, fallback>>]

\* The stealth block of get_driver (lines 79-102) on a launched driver:
\* the primary library, then the CDP script injection, each failure swallowed.
ApplyStealth(o, lib, cdp) ==
    LET primary == [call |-> "apply_stealth", out |-> lib]
        fallback == [call |-> "execute_cdp_cmd", out |-> cdp]
    IN  IF ~(o.stealth /\ ~o._applied_stealth)
        THEN [applied |-> o._applied_stealth, patched |-> FALSE, calls |-> <<>>]
        ELSE IF lib = "ok"
        THEN [applied |-> TRUE, patched |-> TRUE, calls |-> <<primary>>]
        ELSE IF cdp = "ok"
        THEN [applied |-> TRUE, patched |-> TRUE, calls |-> <<primary, fallback>>]
        ELSE [applied |-> o._applied_stealth, patched |-> FALSE,
              calls |-> <<primary, fallback>>]

\* ExtendedHeadless.get_driver on object o whose sessions are ss.
\* in: the outcome of every external call the method can make.
get_driver(o, ss, ds, in) ==
    LET o1 == _auto_install_driver(o, in.install1)
        bo == _build_options(o1, ds, in.mkdir)
        st == ApplyStealth(o1, in.stealthLib, in.cdp)
        h == Len(ss) + 1
        base == [o |-> o1, ss |-> ss, dirs |-> ds, opts |-> <<>>, built |-> FALSE,
                 raised |-> FALSE, cause |-> "", ret |-> 0, calls |-> <<>>]
    IN  IF o1.chrome_driver_path = "" /\ in.install2 = "raise"
        THEN [base EXCEPT !.raised = TRUE, !.cause = "installer"]
        ELSE IF bo.raised
        THEN [base EXCEPT !.raised = TRUE, !.cause = "makedirs"]
        ELSE IF in.launch = "raise"
        THEN [base EXCEPT !.raised = TRUE, !.cause = "launch", !.dirs = bo.dirs,
                          !.opts = bo.opts, !.built = TRUE]
        ELSE IF in.launch = "none"
        THEN [base EXCEPT !.o = [o1 EXCEPT !._driver = 0], !.dirs = bo.dirs,
                          !.opts = bo.opts, !.built = TRUE]
        ELSE [base EXCEPT !.o = [o1 EXCEPT !._applied_stealth = st.applied,
                                           !._driver = h],
                          !.ss = Append(ss, [released |-> FALSE, patched |-> st.patched]),
                          !.dirs = bo.dirs, !.opts = bo.opts, !.built = TRUE,
                          !.ret = h, !.calls = st.calls]

\* Headless.quit (core.py): releases the owned handle if present and clears it
CoreQuit(o, ss) ==
    IF o._driver # 0
    THEN [o |-> [o EXCEPT !._driver = 0],
          ss |-> [ss EXCEPT ![o._driver].released = TRUE]]
    ELSE [o |-> o, ss |-> ss]

GetDriverInputs ==
    [install1 : Outcomes, install2 : Outcomes, mkdir : Outcomes,
     launch : LaunchOutcomes, stealthLib : Outcomes, cdp : Outcomes]

\* The outcome of a call the run never makes is left at "ok", so that each
\* run of get_driver is enumerated once.
Canonical(o, ds, in) ==
    LET o1 == _auto_install_driver(o, in.install1)
        call1 == o.chrome_driver_path = "" /\ o.auto_install
        call2 == o1.chrome_driver_path = ""
        callMk == /\ ~(call2 /\ in.install2 = "raise")
                  /\ o.download_dir # <<>> /\ abspath(o.download_dir) \notin ds
        callLaunch == ~(call2 /\ in.install2 = "raise") /\ ~(callMk /\ in.mkdir = "raise")
        callLib == callLaunch /\ in.launch = "ok" /\ o.stealth /\ ~o._applied_stealth
        callCdp == callLib /\ in.stealthLib = "raise"
    IN  /\ call1 \/ in.install1 = "ok"
        /\ call2 \/ in.install2 = "ok"
        /\ callMk \/ in.mkdir = "ok"
        /\ callLaunch \/ in.launch = "ok"
        /\ callLib \/ in.stealthLib = "ok"
        /\ callCdp \/ in.cdp = "ok"

Init ==
    /\ instances = <<>>
    /\ objs = <<>>
    /\ sessions = <<>>
    /\ dirs = {<<"/">>, Cwd}
    /\ files = {}
    /\ builtOpts = <<>>
    /\ lastOp = NoOp

\* The effect of one get_driver run r on object i
Commit(i, r) ==
    /\ objs' = [objs EXCEPT ![i] = r.o]
    /\ sessions' = [sessions EXCEPT ![i] = r.ss]
    /\ dirs' = r.dirs
    /\ builtOpts' = IF r.built THEN [builtOpts EXCEPT ![i] = r.opts] ELSE builtOpts

\* The part of lastOp that a get_driver run r fills in (ret: the handle it gave)
Trace(op, i, r) ==
    [NoOp EXCEPT !.op = op, !.inst = i, !.ret = r.ret, !.raised = r.raised,
                 !.cause = r.cause, !.calls = r.calls]

\* The inputs of a run: canonical, and within the bound on launches per object
CanRun(i, in) ==
    /\ Canonical(objs[i], dirs, in)
    /\ Len(get_driver(objs[i], sessions[i], dirs, in).ss) <= MaxLaunch

\* caller: inst.get_driver()
GetDriver(i, in) ==
    /\ CanRun(i, in)
    /\ LET r == get_driver(objs[i], sessions[i], dirs, in) IN
        /\ Commit(i, r)
        /\ lastOp' = Trace("get_driver", i, r)
    /\ UNCHANGED <<instances, files>>

\* caller: inst.screenshot(path).  shot is the outcome of d.save_screenshot.
Screenshot(i, path, in, shot) ==
    /\ CanRun(i, in)
    /\ LET r == get_driver(objs[i], sessions[i], dirs, in)
           captured == ~r.raised /\ r.ret # 0 /\ shot = "true"
       IN
        /\ (r.raised \/ r.ret = 0) => shot = "true"
        /\ Commit(i, r)
        /\ files' = IF captured THEN files \cup {path} ELSE files
        /\ lastOp' = [Trace("screenshot", i, r) EXCEPT !.retBool = captured]
    /\ UNCHANGED instances

\* caller: inst.save_pdf(path).  pdf is the outcome of the try block:
\* Page.printToPDF raising, open/write raising, or all of it succeeding.
SavePdf(i, path, in, pdf) ==
    /\ CanRun(i, in)
    /\ LET r == get_driver(objs[i], sessions[i], dirs, in)
           written == ~r.raised /\ r.ret # 0 /\ pdf = "ok"
       IN
        /\ (r.raised \/ r.ret = 0) => pdf = "ok"
        /\ Commit(i, r)
        /\ files' = IF written THEN files \cup {path} ELSE files
        /\ lastOp' = [Trace("save_pdf", i, r) EXCEPT !.retBool = written]
    /\ UNCHANGED instances

\* caller: inst._build_options()
BuildOptions(i, mk) ==
    /\ LET bo == _build_options(objs[i], dirs, mk) IN
        /\ dirs' = bo.dirs
        /\ builtOpts' = IF bo.raised THEN builtOpts ELSE [builtOpts EXCEPT ![i] = bo.opts]
        /\ lastOp' = [NoOp EXCEPT !.op = "_build_options", !.inst = i,
                                  !.raised = bo.raised,
                                  !.cause = IF bo.raised THEN "makedirs" ELSE ""]
    /\ UNCHANGED <<instances, objs, sessions, files>>

\* caller: inst.quit()
Quit(i) ==
    /\ LET q == CoreQuit(objs[i], sessions[i]) IN
        /\ objs' = [objs EXCEPT ![i] = q.o]
        /\ sessions' = [sessions EXCEPT ![i] = q.ss]
    /\ lastOp' = [NoOp EXCEPT !.op = "inst_quit", !.inst = i, !.quits = <<i>>]
    /\ UNCHANGED <<instances, dirs, files, builtOpts>>

\* MultiDriverManager.create
create(name, proxy, stealth, download_dir, auto_install, chrome_driver_path) ==
    /\ Len(objs) < MaxInst
    /\ LET inst == Len(objs) + 1 IN
        /\ objs' = Append(objs, NewHeadless(proxy, stealth, download_dir, auto_install,
                                            chrome_driver_path, DefaultChromeBinary))
        /\ sessions' = Append(sessions, <<>>)
        /\ builtOpts' = Append(builtOpts, <<>>)
        /\ instances' = DictSet(instances, name, inst)
        /\ lastOp' = [NoOp EXCEPT !.op = "create", !.name = name, !.inst = inst,
                                  !.ret = inst, !.replaced = DictGet(instances, name)]
    /\ UNCHANGED <<dirs, files>>

\* MultiDriverManager.get
get(name) ==
    /\ lastOp' = [NoOp EXCEPT !.op = "get", !.name = name, !.ret = DictGet(instances, name)]
    /\ UNCHANGED <<instances, objs, sessions, dirs, files, builtOpts>>

\* MultiDriverManager.quit on the registry state st = [instances, objs, sessions, quits]
RegistryQuit(st, name) ==
    LET inst == DictGet(st.instances, name)
        q == CoreQuit(st.objs[inst], st.sessions[inst])
    IN  IF inst # 0
        THEN [instances |-> DictRemove(st.instances, name),
              objs |-> [st.objs EXCEPT ![inst] = q.o],
              sessions |-> [st.sessions EXCEPT ![inst] = q.ss],
              quits |-> Append(st.quits, inst)]
        ELSE [st EXCEPT !.instances = DictRemove(st.instances, name)]

\* quit_all iterating the dict itself: the first pop ends the loop
QuitEach_Live(st, keys) ==
    IF keys = <<>> THEN st ELSE RegistryQuit(st, keys[1])

\* the loop of quit_all over the snapshot keys: quit(k) for each, in order
QuitEach(st, keys) ==
    LET after[n \in 0..Len(keys)] ==
            IF n = 0 THEN st ELSE RegistryQuit(after[n - 1], keys[n])
    IN  after[Len(keys)]

RegistryState == [instances |-> instances, objs |-> objs, sessions |-> sessions, quits |-> <<>>]

CommitRegistry(st) ==
    /\ instances' = st.instances
    /\ objs' = st.objs
    /\ sessions' = st.sessions

\* MultiDriverManager.quit
quit(name) ==
    /\ LET st == RegistryQuit(RegistryState, name) IN
        /\ CommitRegistry(st)
        /\ lastOp' = [NoOp EXCEPT !.op = "quit", !.name = name, !.quits = st.quits]
    /\ UNCHANGED <<dirs, files, builtOpts>>

\* MultiDriverManager.quit_all
quit_all ==
    /\ LET st == QuitEach(RegistryState, Keys(instances)) IN
        /\ CommitRegistry(st)
        /\ lastOp' = [NoOp EXCEPT !.op = "quit_all", !.quits = st.quits]
    /\ UNCHANGED <<dirs, files, builtOpts>>

Insts == 1..Len(objs)

\* the runs of get_driver that object i can make in this state
Runs(i) == {in \in GetDriverInputs : CanRun(i, in)}

ShotOutcomes == {"true", "false", "raise"}
PdfOutcomes == {"ok", "cdp_raise", "write_raise"}

AllConfigs ==
    [proxy : Proxies, stealth : BOOLEAN, download_dir : DownloadDirs,
     auto_install : BOOLEAN, chrome_driver_path : DriverPaths]

\* the defaults of create's signature
DefaultConfig ==
    [proxy |-> "", stealth |-> FALSE, download_dir |-> <<>>,
     auto_install |-> TRUE, chrome_driver_path |-> ""]

Create(name, c) ==
    create(name, c.proxy, c.stealth, c.download_dir, c.auto_install, c.chrome_driver_path)

\* ---- the whole program --------------------------------------------------
Next ==
    \/ \E name \in Names, c \in AllConfigs : Create(name, c)
    \/ \E name \in Names : get(name)
    \/ \E name \in Names : quit(name)
    \/ quit_all
    \/ \E i \in Insts : \E in \in Runs(i) : GetDriver(i, in)
    \/ \E i \in Insts : \E path \in OutPaths, in \in Runs(i), shot \in ShotOutcomes :
            Screenshot(i, path, in, shot)
    \/ \E i \in Insts : \E path \in OutPaths, in \in Runs(i), pdf \in PdfOutcomes :
            SavePdf(i, path, in, pdf)
    \/ \E i \in Insts, mk \in Outcomes : BuildOptions(i, mk)
    \/ \E i \in Insts : Quit(i)

Spec == Init /\ [][Next]_vars

\* ---- one session: a single object, every operation and every outcome ----
\* The launch and driver settings vary with the options settings at their
\* defaults, and the options settings vary with the driver path given.
SessionConfigs ==
    {c \in AllConfigs :
        \/ c.proxy = "" /\ c.download_dir = <<>>
        \/ ~c.stealth /\ c.auto_install /\ c.chrome_driver_path # ""}

NextSession ==
    \/ \E c \in SessionConfigs : objs = <<>> /\ Create("a", c)
    \/ \E i \in Insts : \E in \in Runs(i) : GetDriver(i, in)
    \/ \E i \in Insts : \E path \in OutPaths, in \in Runs(i), shot \in ShotOutcomes :
            Screenshot(i, path, in, shot)
    \/ \E i \in Insts : \E path \in OutPaths, in \in Runs(i), pdf \in PdfOutcomes :
            SavePdf(i, path, in, pdf)
    \/ \E i \in Insts, mk \in Outcomes : BuildOptions(i, mk)
    \/ \E i \in Insts : Quit(i)

SpecSession == Init /\ [][NextSession]_vars

\* ---- the registry: several objects of the default configuration, each ---
\* launching at most one browser, with the installer working
RegistryRuns(i) ==
    {in \in Runs(i) : in.install1 = "ok" /\ in.install2 = "ok" /\ in.launch # "none"}

NextRegistry ==
    \/ \E name \in Names : Create(name, DefaultConfig)
    \/ \E name \in Names : get(name)
    \/ \E name \in Names : quit(name)
    \/ quit_all
    \/ \E i \in Insts : \E in \in RegistryRuns(i) : sessions[i] = <<>> /\ GetDriver(i, in)
    \/ \E i \in Insts : Quit(i)

SpecRegistry == Init /\ [][NextRegistry]_vars

\* ---- properties ---------------------------------------------------------
Live(i) == {k \in 1..Len(sessions[i]) : ~sessions[i][k].released}

\* C1: two consecutive get_driver calls on an object, the first of which
\* returned a handle, return the same handle, and the second launches no
\* browser.
C1_GetDriverIdempotent ==
    [][(/\ lastOp.op = "get_driver" /\ lastOp.ret # 0
        /\ lastOp'.op = "get_driver" /\ lastOp'.inst = lastOp.inst)
       => (/\ ~lastOp'.raised
           /\ lastOp'.ret = lastOp.ret
           /\ sessions'[lastOp.inst] = sessions[lastOp.inst])]_vars

\* C2: an object that was never quit owns at most one launched session,
\* whatever get_driver, screenshot and save_pdf calls were made on it.
C2_AtMostOneSession ==
    \A i \in Insts :
        (\A k \in 1..Len(sessions[i]) : ~sessions[i][k].released)
            => Len(sessions[i]) <= 1

\* C3: when the launch fails (it raises, or yields no handle), screenshot and
\* save_pdf return False and no exception reaches the caller.
C3_CaptureNeverRaises ==
    (/\ lastOp.op \in {"screenshot", "save_pdf"}
     /\ \/ lastOp.cause = "launch"
        \/ ~lastOp.raised /\ lastOp.ret = 0)
    => (~lastOp.raised /\ ~lastOp.retBool)

\* C8: a failure of the driver installer never reaches the caller of
\* get_driver, screenshot or save_pdf.
C8_InstallerFailureSwallowed ==
    lastOp.op \in {"get_driver", "screenshot", "save_pdf"}
        => ~(lastOp.raised /\ lastOp.cause = "installer")

\* C10: on an object created with stealth, whenever the applied-stealth flag
\* is true the cached handle is a session that was patched successfully.
C10_FlagMeansCachedHandlePatched ==
    \A i \in Insts :
        (objs[i].stealth /\ objs[i]._applied_stealth /\ objs[i]._driver # 0)
            => sessions[i][objs[i]._driver].patched

\* the objects the registry holds
Registered(d) == {d[k].inst : k \in 1..Len(d)}

Count(seq, x) == Cardinality({k \in 1..Len(seq) : seq[k] = x})

IsPrefix(p, q) == Len(p) <= Len(q) /\ SubSeq(q, 1, Len(p)) = p

UniqueNames(d) == \A j, k \in 1..Len(d) : d[j].name = d[k].name => j = k

\* C4: create(n) followed by get(n) returns the object create returned;
\* quit(n) followed by get(n) returns None; quit(n) of a name that is not
\* registered changes nothing and does not raise.
C4_RegistryRoundTrip ==
    [][/\ (lastOp.op = "create" /\ lastOp'.op = "get" /\ lastOp'.name = lastOp.name)
            => (lastOp'.ret = lastOp.ret /\ lastOp'.ret # 0)
       /\ (lastOp.op = "quit" /\ lastOp'.op = "get" /\ lastOp'.name = lastOp.name)
            => lastOp'.ret = 0
       /\ (lastOp'.op = "quit" /\ ~HasKey(instances, lastOp'.name))
            => (/\ instances' = instances /\ objs' = objs /\ sessions' = sessions
                /\ ~lastOp'.raised /\ lastOp'.quits = <<>>)]_vars

C4_Witness ==
    /\ lastOp.op = "get" /\ lastOp.ret # 0
    /\ Len(instances) >= 2

\* C5: quit_all leaves the registry empty and invokes quit() exactly once on
\* each object that was registered when it started, and on no other.
C5_QuitAllEachOnce ==
    [][lastOp'.op = "quit_all"
        => (/\ instances' = <<>>
            /\ \A i \in Insts :
                Count(lastOp'.quits, i) = IF i \in Registered(instances) THEN 1 ELSE 0)]_vars

C5_Witness ==
    /\ lastOp.op = "quit_all" /\ Len(lastOp.quits) >= 2
    /\ instances = <<>>
    /\ \E i \in Insts : sessions[i] # <<>> /\ sessions[i][1].released

C7_StealthFlagMonotonic ==
    [][/\ Len(objs') > Len(objs) => ~objs'[Len(objs')]._applied_stealth
       /\ \A i \in Insts :
            /\ objs[i]._applied_stealth => objs'[i]._applied_stealth
            /\ (~objs[i]._applied_stealth /\ objs'[i]._applied_stealth)
                => (/\ lastOp'.inst = i
                    /\ \E k \in 1..Len(lastOp'.calls) : lastOp'.calls[k].out = "ok")
            /\ (lastOp'.inst = i /\ lastOp'.calls # <<>>) => ~objs[i]._applied_stealth
       /\ \A k \in 1..Len(lastOp'.calls) :
            (lastOp'.calls[k].call = "apply_stealth" /\ lastOp'.calls[k].out = "raise")
                => (/\ k < Len(lastOp'.calls)
                    /\ lastOp'.calls[k + 1].call = "execute_cdp_cmd")]_vars

C7_Witness ==
    /\ lastOp.calls = << [call |-> "apply_stealth", out |-> "raise"],
                         [call |-> "execute_cdp_cmd", out |-> "ok"] >>
    /\ objs[lastOp.inst]._applied_stealth
    /\ Len(sessions[lastOp.inst]) >= 2

\* the Options of an object never change from one _build_options to the next
SameOptionsEachTime ==
    \A i \in Insts :
        (builtOpts[i] # <<>> /\ builtOpts'[i] # <<>>) => builtOpts'[i] = builtOpts[i]

\* C9 as stated: _build_options gives the same options for the same
\* configuration and performs no I/O: it leaves the filesystem, the download
\* directory included, and the object unchanged.
C9_BuildOptionsPure ==
    [][/\ SameOptionsEachTime
       /\ lastOp'.op = "_build_options"
            => (/\ dirs' = dirs /\ files' = files
                /\ objs' = objs /\ sessions' = sessions)]_vars

\* C9 amended: _build_options gives the same options for the same
\* configuration and leaves the object unchanged; its one effect on the
\* filesystem is to create the download directory, with its parents, when one
\* is configured, and the preferences name that directory by its absolute
\* path; when the creation raises nothing is built and nothing changes.
C9_BuildOptionsCreatesDownloadDir ==
    [][/\ SameOptionsEachTime
       /\ lastOp'.op = "_build_options"
            => LET i == lastOp'.inst
                   dd == objs[i].download_dir
               IN  /\ objs' = objs /\ sessions' = sessions
                   /\ instances' = instances /\ files' = files
                   /\ dirs \subseteq dirs'
                   /\ \A d \in dirs' \ dirs : dd # <<>> /\ IsPrefix(d, abspath(dd))
                   /\ lastOp'.raised => (dirs' = dirs /\ builtOpts' = builtOpts /\ dd # <<>>)
                   /\ ~lastOp'.raised
                        => (/\ builtOpts'[i] # <<>>
                            /\ (dd = <<>>) = (builtOpts'[i][1].prefs = <<>>)
                            /\ dd # <<>> =>
                                (/\ abspath(dd) \in dirs'
                                 /\ builtOpts'[i][1].prefs[1].download_default_directory
                                        = abspath(dd)
                                 /\ builtOpts'[i][1].prefs[1].download_default_directory[1] = "/"))]_vars

C9_Witness ==
    /\ lastOp.op = "_build_options" /\ ~lastOp.raised
    /\ objs[lastOp.inst].download_dir = <<"dl">>
    /\ (Cwd \o <<"dl">>) \in dirs
    /\ builtOpts[lastOp.inst] # <<>>
    /\ sessions[lastOp.inst] # <<>>
====
